---- MODULE Spec2Model ----
(***************************************************************************)
(* A model of archr's QEMU tracer (src/archr/arsenal/qemu_tracer.py):      *)
(* one tracing session of QEMUTracerBow.fire_context, the artifacts it     *)
(* retrieves from the execution environment and the parsing of the trace   *)
(* log (Spec); the command line for any target and keyword arguments       *)
(* (SpecLaunch); fire feeding a testcase to the process (SpecFire); and    *)
(* the scratch-name allocation of two concurrent sessions (SpecAlloc).     *)
(*                                                                         *)
(* Python values are encoded uniformly: None is the empty tuple and a      *)
(* present value v is <<v>>, so that the empty list [] (<< <<>> >>) and    *)
(* None stay distinct.  Bytes are sequences of tokens; a token is a word   *)
(* of the log ("Trace", "start_code", "0x", a symbol name), a separator    *)
(* or one hexadecimal digit.                                               *)
(***************************************************************************)
EXTENDS Integers, Sequences, FiniteSets, TLC

\* ------------------------------------------------------------------ bounds

\* longest synthetic trace (number of trace-entry lines of a log)
MaxTraceLen == 2

\* most core files the emulator leaves in the scratch directory
MaxCores == 2

\* digits of a zero-padded hexadecimal number printed by the emulator
HexWidth == 2

\* ------------------------------------------------------------- Python values

None == <<>>

Some(v) == <<v>>

IsSome(o) == o # <<>>

Val(o) == o[1]

Last(s) == s[Len(s)]

Max(S) == CHOOSE x \in S : \A y \in S : y <= x

\* ------------------------------------------------------------------ tokens

HexChars == <<"0", "1", "2", "3", "4", "5", "6", "7", "8", "9", "a", "b", "c", "d", "e", "f">>

IsHexDigit(c) == \E i \in 1..Len(HexChars) : HexChars[i] = c

DigitVal(c) == (CHOOSE i \in 1..Len(HexChars) : HexChars[i] = c) - 1

\* bytes.strip(): leading and trailing whitespace removed
RECURSIVE StripLeft(_)
StripLeft(b) == IF b # <<>> /\ Head(b) = " " THEN StripLeft(Tail(b)) ELSE b

RECURSIVE StripRight(_)
StripRight(b) == IF b # <<>> /\ Last(b) = " " THEN StripRight(SubSeq(b, 1, Len(b) - 1)) ELSE b

\* faulty variant: the digits read to base 10
RECURSIVE DecFold(_, _)
DecFold(d, acc) == IF d = <<>> THEN acc ELSE DecFold(Tail(d), 10 * acc + DigitVal(Head(d)))

RECURSIVE HexFold(_, _)
HexFold(d, acc) == IF d = <<>> THEN acc ELSE HexFold(Tail(d), 16 * acc + DigitVal(Head(d)))

\* int(b, 16): surrounding whitespace and one "0x" prefix are accepted, at
\* least one digit is needed; None stands for the ValueError
HexValue(b) ==
    LET s == StripRight(StripLeft(b))
        d == IF s # <<>> /\ Head(s) = "0x" THEN Tail(s) ELSE s
    IN IF d = <<>> \/ \E i \in 1..Len(d) : ~IsHexDigit(d[i])
       THEN None
       ELSE Some(HexFold(d, 0))

\* bytes.splitlines(): the lines of a buffer, without their line ends
RECURSIVE SplitLines(_)
SplitLines(b) ==
    IF b = <<>> THEN <<>>
    ELSE LET E == {k \in 1..Len(b) : b[k] = "\n"}
         IN IF E = {} THEN <<b>>
            ELSE LET k == CHOOSE x \in E : \A y \in E : x <= y
                 IN <<SubSeq(b, 1, k - 1)>> \o SplitLines(SubSeq(b, k + 1, Len(b)))

\* bytes.split(): the whitespace-separated fields of a line
RECURSIVE Fields(_)
Fields(t) ==
    LET s == StripLeft(t)
    IN IF s = <<>> THEN <<>>
       ELSE LET E == {k \in 1..Len(s) : s[k] = " "}
            IN IF E = {} THEN <<s>>
               ELSE LET k == CHOOSE x \in E : \A y \in E : x <= y
                    IN <<SubSeq(s, 1, k - 1)>> \o Fields(SubSeq(s, k, Len(s)))

\* t.startswith(b"start_code") and t.startswith(b"Trace ")
StartsWithStartCode(t) == Len(t) >= 1 /\ t[1] = "start_code"

StartsWithTrace(t) == Len(t) >= 2 /\ t[1] = "Trace" /\ t[2] = " "

\* ------------------------------------------------------------ trace patterns

\* _trace_old_re.match(t).group('addr'): Trace (.*) \[(?P<addr>.*)\].*
\* Every .* is greedy: the opening " [" is the last one that still lets the
\* rest match, and addr runs to the last "]".  None: no match.
trace_old_re(t) ==
    LET n == Len(t)
        I == {i \in 3..n : /\ t[i] = " "
                           /\ i + 1 <= n
                           /\ t[i + 1] = "["
                           /\ \E j \in (i + 2)..n : t[j] = "]"}
    IN IF ~StartsWithTrace(t) \/ I = {} THEN None
       ELSE LET i == Max(I)
                j == Max({x \in (i + 2)..n : t[x] = "]"})
            IN Some(SubSeq(t, i + 2, j - 1))

\* _trace_new_re.match(t).group('addr'):
\* Trace (.*) \[(?P<something1>.*)\/(?P<addr>.*)\/(?P<flags>.*)\].*
\* Greedy groups, backtracking from the left: the last " [", then the last
\* "/" that leaves a "/" and a "]" after it, then the last "/" before a "]".
trace_new_re(t) ==
    LET n == Len(t)
        Close(k) == \E j \in (k + 1)..n : t[j] = "]"
        Slash2(k) == \E s2 \in (k + 1)..n : t[s2] = "/" /\ Close(s2)
        Slash1(k) == \E s \in (k + 1)..n : t[s] = "/" /\ Slash2(s)
        I == {i \in 3..n : /\ t[i] = " "
                           /\ i + 1 <= n
                           /\ t[i + 1] = "["
                           /\ Slash1(i + 1)}
    IN IF ~StartsWithTrace(t) \/ I = {} THEN None
       ELSE LET i == Max(I)
                s == Max({x \in (i + 2)..n : t[x] = "/" /\ Slash2(x)})
                s2 == Max({x \in (s + 1)..n : t[x] = "/" /\ Close(x)})
            IN Some(SubSeq(t, s + 1, s2 - 1))

\* faulty variant: the old pattern whatever the OS family
trace_re_old_only(os, t) == trace_old_re(t)

\* _trace_re = _trace_old_re if self.target.target_os == 'cgc' else _trace_new_re
trace_re(os, t) == IF os = "cgc" THEN trace_old_re(t) ELSE trace_new_re(t)

\* ------------------------------------------------------------ trace parsing

\* next(t.split()[1] for t in trace_iter if t.startswith(b"start_code")) and
\* int(.., 16).  The iterator stops behind the first load-base line.  A log
\* without one ends the generator expression: the StopIteration raised in
\* fire_context, a generator, surfaces as RuntimeError (PEP 479).
ParseBaseAddress(lines) ==
    LET K == {k \in 1..Len(lines) : StartsWithStartCode(lines[k])}
    IN IF K = {} THEN [base |-> None, rest |-> <<>>, error |-> Some("RuntimeError")]
       ELSE LET k == CHOOSE x \in K : \A y \in K : x <= y
                f == Fields(lines[k])
                rest == SubSeq(lines, k + 1, Len(lines))
            IN IF Len(f) < 2
               THEN [base |-> None, rest |-> rest, error |-> Some("IndexError")]
               ELSE IF HexValue(f[2]) = None
               THEN [base |-> None, rest |-> rest, error |-> Some("ValueError")]
               ELSE [base |-> HexValue(f[2]), rest |-> rest, error |-> None]

\* faulty variant: entry lines the pattern does not match, or whose address
\* is no hexadecimal number, are passed over
RECURSIVE ParseEntriesSkipBad(_, _, _)
ParseEntriesSkipBad(os, lines, acc) ==
    IF lines = <<>> THEN [trace |-> Some(acc), error |-> None]
    ELSE LET t == Head(lines)
         IN IF ~StartsWithTrace(t) \/ trace_re(os, t) = None
            THEN ParseEntriesSkipBad(os, Tail(lines), acc)
            ELSE IF HexValue(Val(trace_re(os, t))) = None
            THEN ParseEntriesSkipBad(os, Tail(lines), acc)
            ELSE ParseEntriesSkipBad(os, Tail(lines),
                                     Append(acc, Val(HexValue(Val(trace_re(os, t))))))

\* [ int(_trace_re.match(t).group('addr'), 16) for t in trace_iter
\*   if t.startswith(b"Trace ") ]: the addresses in line order, or the first
\* error (no match: AttributeError on None; no hexadecimal number: ValueError)
RECURSIVE ParseEntries(_, _, _)
ParseEntries(os, lines, acc) ==
    IF lines = <<>> THEN [trace |-> Some(acc), error |-> None]
    ELSE LET t == Head(lines)
         IN IF ~StartsWithTrace(t) THEN ParseEntries(os, Tail(lines), acc)
            ELSE IF trace_re(os, t) = None
            THEN [trace |-> None, error |-> Some("AttributeError")]
            ELSE IF HexValue(Val(trace_re(os, t))) = None
            THEN [trace |-> None, error |-> Some("ValueError")]
            ELSE ParseEntries(os, Tail(lines), Append(acc, Val(HexValue(Val(trace_re(os, t))))))

\* ------------------------------------------------------- emulator's trace log

\* addresses the emulator prints: the load base and the traced blocks
BaseAddrs == {64, 128}

TraceAddrs == {65, 74}

\* an address as the emulator prints it: zero-padded hexadecimal
RECURSIVE HexDigits(_, _)
HexDigits(n, w) == IF w = 0 THEN <<>> ELSE HexDigits(n \div 16, w - 1) \o <<HexChars[(n % 16) + 1]>>

Hex(n) == HexDigits(n, HexWidth)

\* the symbol the emulator prints behind an entry (none for most blocks)
SymbolOf(a) == IF a = 65 THEN <<"main">> ELSE <<>>

\* the load-base line: start_code 0x<hex>
StartCodeLine(base) == <<"start_code", " ", "0x">> \o Hex(base)

\* a trace-entry line of the cgc emulator: Trace <tb> [<pc>] <symbol>
OldEntry(a) == <<"Trace", " ", "0x", "7", "f", " ", "[">> \o Hex(a) \o <<"]", " ">> \o SymbolOf(a)

\* a trace-entry line of the other emulators:
\* Trace <cpu>: <tb> [<cs_base>/<pc>/<flags>] <symbol>
NewEntry(a) ==
    <<"Trace", " ", "0:", " ", "0x", "7", "f", " ", "[">> \o Hex(0) \o <<"/">> \o Hex(a)
        \o <<"/", "0x", "b", "0", "]", " ">> \o SymbolOf(a)

Entry(os, a) == IF os = "cgc" THEN OldEntry(a) ELSE NewEntry(a)

RECURSIVE EntryLines(_, _)
EntryLines(os, addrs) ==
    IF addrs = <<>> THEN <<>>
    ELSE Entry(os, Head(addrs)) \o <<"\n">> \o EntryLines(os, Tail(addrs))

\* a log of one load-base line and one well-formed entry line per address
EncodeLog(os, base, addrs) == StartCodeLine(base) \o <<"\n">> \o EntryLines(os, addrs)

AddrSeqs == UNION {[1..n -> TraceAddrs] : n \in 0..MaxTraceLen}

OSFamilies == {"cgc", "linux"}

WellFormedLogs(os) == {EncodeLog(os, b, as) : b \in BaseAddrs, as \in AddrSeqs}

\* what a stopped emulator leaves: nothing, or a log cut inside an entry line
PartialLogs == {<<>>, StartCodeLine(64) \o <<"\n", "Trace", " ", "0x", "7">>}

\* the end-to-end run: ten traced blocks
ScenarioTrace == <<65, 74, 65, 65, 74, 74, 65, 74, 65, 74>>

ScenarioLogs == {EncodeLog(os, b, ScenarioTrace) : os \in OSFamilies, b \in BaseAddrs}

\* entry lines with no load-base line before them
HeadlessLogs == {EntryLines(os, <<74>>) : os \in OSFamilies}

\* the trace files retrieve_contents may hand back
TraceLogs ==
    WellFormedLogs("cgc") \cup WellFormedLogs("linux") \cup PartialLogs
        \cup ScenarioLogs \cup HeadlessLogs

\* ------------------------------------------------------------ result record

\* class TraceResults: every field starts as None
TraceResults ==
    [process |-> None, socket |-> None,
     returncode |-> None, signal |-> None, crashed |-> None, timed_out |-> None,
     trace |-> None, crash_address |-> None, base_address |-> None,
     magic_contents |-> None, core_path |-> None]

\* a memory page: the size the magic-page snapshot must have (0x1000)
PageSize == 4096

\* ------------------------------------------------------------ crash detection

\* faulty variant: the raw signal -11 is forgotten
IsSegvExitCodeOnly(rc) == rc = 139

\* r.returncode in [ 139, -11 ]
IsSegv(rc) == rc \in {139, -11}

\* Python's == between an int and a list: never equal
IntEqList(n, l) == FALSE

\* r.returncode == [ 132, -9 ]
IsIll(rc) == IntEqList(rc, <<132, -9>>)

\* faulty variant: the return code is read whether the scope timed out or not
ClassifyWhateverTimeout(res, rc) ==
    IF IsSegv(rc)
    THEN [res EXCEPT !.returncode = Some(rc), !.crashed = Some(TRUE), !.signal = Some("SIGSEGV")]
    ELSE [res EXCEPT !.returncode = Some(rc)]

\* faulty variant: a return code that is no fault code sets crashed to False
ClassifyMarksClean(res, rc) ==
    IF res.timed_out = Some(TRUE) THEN res
    ELSE IF IsSegv(rc)
    THEN [res EXCEPT !.returncode = Some(rc), !.crashed = Some(TRUE), !.signal = Some("SIGSEGV")]
    ELSE [res EXCEPT !.returncode = Some(rc), !.crashed = Some(FALSE)]

\* if not r.timed_out: the return code is read and classified
Classify(res, rc) ==
    IF res.timed_out = Some(TRUE) THEN res
    ELSE IF IsSegv(rc)
    THEN [res EXCEPT !.returncode = Some(rc), !.crashed = Some(TRUE), !.signal = Some("SIGSEGV")]
    ELSE IF IsIll(rc)
    THEN [res EXCEPT !.returncode = Some(rc), !.crashed = Some(TRUE), !.signal = Some("SIGILL")]
    ELSE [res EXCEPT !.returncode = Some(rc)]

\* ------------------------------------------------------------- trace stage

\* faulty variant: the first traced address instead of the last
CrashAddressFirst(trace) == Head(trace)

\* r.crash_address = r.trace[-1]
CrashAddress(trace) == Last(trace)

\* lines 112-126 on the retrieved log: the record afterwards and the error
\* that ended the stage, if one did.  base_address is assigned before the
\* entries are parsed, trace before the faulting address is taken.
TraceStage(res, os, log) ==
    LET pb == ParseBaseAddress(SplitLines(log))
        pe == ParseEntries(os, pb.rest, <<>>)
        r1 == [res EXCEPT !.base_address = pb.base]
        r2 == [r1 EXCEPT !.trace = pe.trace]
    IN IF pb.error # None THEN [r |-> res, error |-> pb.error]
       ELSE IF pe.error # None THEN [r |-> r1, error |-> pe.error]
       ELSE IF res.crashed # Some(TRUE) THEN [r |-> r2, error |-> None]
       ELSE IF Val(pe.trace) = <<>> THEN [r |-> r2, error |-> Some("IndexError")]
       ELSE [r |-> [r2 EXCEPT !.crash_address = Some(CrashAddress(Val(pe.trace)))],
             error |-> None]

\* ------------------------------------------------------------- magic stage

\* len(r.magic_contents) != 0x1000
MagicSizeBad(n) == n # PageSize

\* lines 131-133: the contents (kept as their length) are stored in the
\* record first and checked afterwards
MagicStage(res, n) ==
    [r |-> [res EXCEPT !.magic_contents = Some(n)],
     error |-> IF MagicSizeBad(n) THEN Some("ArchrError: improper magic size") ELSE None]

\* ------------------------------------------------------------- file systems

\* A file system is the set of its paths, a path a tuple of names.

Children(fs, d) == {p \in fs : Len(p) = Len(d) + 1 /\ SubSeq(p, 1, Len(d)) = d}

CoreNames == <<"qemu_1.core", "qemu_2.core", "qemu_3.core", "qemu_4.core">>

\* the pattern qemu_*.core
IsCoreName(name) == \E i \in 1..Len(CoreNames) : CoreNames[i] = name

\* resolve_glob / glob.glob of os.path.join(d, "qemu_*.core")
GlobCores(fs, d) == {p \in Children(fs, d) : IsCoreName(Last(p))}

\* retrieve_into(remote, local_dir): the file is copied under its own name
RetrieveInto(fs, remote, local_dir) == fs \cup {Append(local_dir, Last(remote))}

\* shutil.move(src, dst)
Move(fs, src, dst) == (fs \ {src}) \cup {dst}

\* shutil.rmtree(d)
RmTree(fs, d) == {p \in fs : Len(p) < Len(d) \/ SubSeq(p, 1, Len(d)) # d}

\* rmdir d: only an empty directory is removed
Rmdir(fs, d) == IF Children(fs, d) = {} THEN fs \ {d} ELSE fs

\* faulty variant: only an empty glob is refused
CoreCountBadIfNone(cores) == Cardinality(cores) = 0

\* len(target_cores) != 1
CoreCountBad(cores) == Cardinality(cores) # 1

\* lines 105-109 with exactly one core file in the scratch directory: the
\* local file system afterwards
FetchCore(lfs, core, local_tmpdir, local_core_filename) ==
    LET made == lfs \cup {local_tmpdir}
        copied == RetrieveInto(made, core, local_tmpdir)
        cores == GlobCores(copied, local_tmpdir)
        moved == Move(copied, CHOOSE c \in cores : TRUE, local_core_filename)
    IN RmTree(moved, local_tmpdir)

\* ---------------------------------------------------------- command builder

\* target metadata: DockerImageTarget.target_args and target_env (lists of
\* strings once the target is built) and the architecture tag
VARIABLES target_arch, target_args, target_env

\* str(seed): the decimal digits of an integer
DecChars == <<"0", "1", "2", "3", "4", "5", "6", "7", "8", "9">>

RECURSIVE str(_)
str(n) ==
    IF n < 0 THEN <<"-">> \o str(0 - n)
    ELSE IF n < 10 THEN <<DecChars[n + 1]>>
    ELSE str(n \div 10) \o <<DecChars[(n % 10) + 1]>>

\* qemu_variant(record_trace)
qemu_variant(os, rec) ==
    IF os = "cgc"
    THEN <<"shellphish-qemu-cgc-", IF rec THEN "tracer" ELSE "base">>
    ELSE <<"shellphish-qemu-linux-", target_arch>>

\* 'cgc' in qemu_variant
IsCgcVariant(v) == v[1] = "shellphish-qemu-cgc-"

\* faulty variant: the program's arguments are added before the option that
\* reports bad arguments
build_command_args_early(os, trace_filename, library_path, magic_filename, coredump_dir, report_bad_args, seed) ==
    << <<"/tmp/shellphish_qemu/fire">>, qemu_variant(os, trace_filename # None), <<"-C">>,
       coredump_dir >>
       \o target_args
       \o (IF report_bad_args THEN << <<"-report_bad_args">> >> ELSE <<>>)

\* _build_command: absent keyword arguments are None
build_command(os, trace_filename, library_path, magic_filename, coredump_dir, report_bad_args, seed) ==
    LET v == qemu_variant(os, trace_filename # None)
    IN << <<"/tmp/shellphish_qemu/fire">>, v, <<"-C">>, coredump_dir >>
       \o (IF trace_filename # None
           THEN IF ~IsCgcVariant(v)
                THEN << <<"-d">>, <<"nochain,exec,page">>, <<"-D">>, Val(trace_filename) >>
                ELSE << <<"-d">>, <<"exec">>, <<"-D">>, Val(trace_filename) >>
           ELSE << <<"-enable_double_empty_exiting">> >>)
       \o (IF magic_filename # None THEN << <<"-magicdump">>, Val(magic_filename) >> ELSE <<>>)
       \o (IF seed # None THEN << <<"-seed">>, str(Val(seed)) >> ELSE <<>>)
       \o (IF report_bad_args THEN << <<"-report_bad_args">> >> ELSE <<>>)
       \o (IF IsCgcVariant(v) THEN << <<"-m">>, <<"8G">> >> ELSE <<>>)
       \o (IF ~IsCgcVariant(v) /\ \A i \in 1..Len(target_env) : target_env[i] # <<"LD_BIND_NOW=1">>
           THEN << <<"-E">>, <<"LD_BIND_NOW=1">> >> ELSE <<>>)
       \o (IF library_path # None
           THEN << <<"-E">>, <<"LD_LIBRARY_PATH=">> \o Val(library_path) >> ELSE <<>>)
       \o target_args

\* ------------------------------------------------------------------- state

VARIABLES
    record_trace, record_magic, save_core,  \* fire_context's options
    target_os,                              \* self.target.target_os
    library_path, report_bad_args, seed,    \* fire_context's **kwargs
    testcase,                               \* fire's testcase argument
    stdin,                                  \* the process's standard input
    result,                                 \* what fire has returned
    pc,                                     \* where the session is
    tmpdir,                                 \* the scratch directory's path
    target_trace_filename, target_magic_filename, local_core_filename,
    target_cmd,
    r,                                      \* the TraceResults record
    process,                                \* the emulator process
    target_fs,                              \* the execution environment's files
    local_fs,                               \* the local files
    target_cores,                           \* the resolved core-file glob
    trace,                                  \* the retrieved trace log
    error,                                  \* the exception that ended the session
    rmdir,                                  \* the rmdir command: none, running, done
    sessions,                               \* two sessions' scratch-name allocation
    env_dirs                                \* the directories those two sessions made

vars == <<target_arch, target_args, target_env,
          record_trace, record_magic, save_core, target_os,
          library_path, report_bad_args, seed, testcase, stdin, result, pc, tmpdir,
          target_trace_filename, target_magic_filename, local_core_filename,
          target_cmd, r, process, target_fs, local_fs, target_cores, trace,
          error, rmdir, sessions, env_dirs>>

options == <<record_trace, record_magic, save_core, target_os>>

inputs == <<target_arch, target_args, target_env, library_path, report_bad_args, seed, testcase>>

caller == <<stdin, result>>

alloc == <<sessions, env_dirs>>

names == <<tmpdir, target_trace_filename, target_magic_filename, local_core_filename, target_cmd>>

\* tempfile.mktemp(prefix="/tmp/tracer_"), tempfile.mktemp(dir='/tmp',
\* prefix="tracer-") and tempfile.mkdtemp(prefix="/tmp/tracer_")
ScratchDir == <<"tracer_a">>

TmpPrefix == "tracer-p"

LocalTmpdir == <<"tracer_l">>

\* return codes the emulator process ends with
ReturnCodes == {0, 139, -11, 132, -9}

\* sizes of the snapshot file the emulator leaves
MagicSizes == {0, PageSize - 1, PageSize, PageSize + 1}

\* the core files a process leaves in its coredump directory
CoreFiles(d, n) == {Append(d, CoreNames[i]) : i \in 1..n}

\* ---------------------------------------------------------------- testcase

\* fire's testcase: one str or bytes object, or a collection of them.  A str
\* is a sequence of characters, a bytes a sequence of byte values.
Str(chars) == [type |-> "str", data |-> chars]

Bytes(bs) == [type |-> "bytes", data |-> bs]

Collection(elems) == [type |-> "collection", items |-> elems]

\* testcase=(), the default
NoTestcase == Collection(<<>>)

Testcases ==
    {NoTestcase, Bytes(<<"A", "B">>), Str(<<"e-acute">>),
     Collection(<<Bytes(<<"A">>), Str(<<"B">>)>>)}

\* faulty variant: lines 59-60 are missing, and the loop runs over the items
\* of the str or bytes object
WrapNever(tc) ==
    IF tc.type \in {"str", "bytes"}
    THEN [i \in 1..Len(tc.data) |-> [type |-> tc.type, data |-> <<tc.data[i]>>]]
    ELSE tc.items

\* lines 59-60: if type(testcase) in [str, bytes]: testcase = [testcase]
Wrap(tc) == IF tc.type \in {"str", "bytes"} THEN <<tc>> ELSE tc.items

\* the UTF-8 encoding of a character: one byte for ASCII, two for e-acute
Utf8(c) == IF c = "e-acute" THEN <<"0xc3", "0xa9">> ELSE <<c>>

RECURSIVE Utf8All(_)
Utf8All(chars) == IF chars = <<>> THEN <<>> ELSE Utf8(Head(chars)) \o Utf8All(Tail(chars))

\* line 64: t.encode('utf-8') if type(t) is str else t
Encode(t) == IF t.type = "str" THEN Utf8All(t.data) ELSE t.data

\* the two sessions of the allocation steps
Sessions == {"s1", "s2"}

\* what fire_context's entry finds: options chosen by the caller, nothing
\* allocated, no process
InitSession ==
    /\ record_trace \in BOOLEAN
    /\ record_magic \in BOOLEAN
    /\ save_core \in BOOLEAN
    /\ target_os \in OSFamilies
    /\ stdin = [written |-> <<>>, closes |-> 0]
    /\ result = None
    /\ pc = "start"
    /\ tmpdir = None
    /\ target_trace_filename = None
    /\ target_magic_filename = None
    /\ local_core_filename = None
    /\ target_cmd = None
    /\ r = TraceResults
    /\ process = [state |-> "none", returncode |-> None]
    /\ target_fs = {}
    /\ local_fs = {}
    /\ target_cores = None
    /\ trace = None
    /\ error = None
    /\ rmdir = "none"
    /\ sessions = [s \in Sessions |-> [pc |-> "start", tmpdir |-> None, tmp_prefix |-> None]]
    /\ env_dirs = {}

\* a built x86_64 target, _build_command's defaults for the keyword
\* arguments (line 151) and fire's default testcase (line 58)
Init ==
    /\ InitSession
    /\ target_arch = "x86_64"
    /\ target_args = << <<"/bin/target">>, <<"arg">> >>
    /\ target_env = << <<"PATH=/bin">> >>
    /\ library_path = None
    /\ report_bad_args = FALSE
    /\ seed = None
    /\ testcase = NoTestcase

\* architectures the emulator launcher has a variant for, and the
\* architecture tags a target may carry
KnownArchs == {"x86_64", "i386"}

Archs == KnownArchs \cup {"m88k"}

\* argument lists, environments and keyword arguments a caller may pass
ArgLists == {<< <<"/bin/target">>, <<"arg">> >>, << <<"/bin/sh">>, <<"-c">>, <<"arg">> >>}

EnvLists == {<< <<"PATH=/bin">> >>, << <<"PATH=/bin">>, <<"LD_BIND_NOW=1">> >>}

LibraryPaths == {None, Some(<<"/lib">>)}

Seeds == {None, Some(0), Some(307)}

\* any target and any keyword arguments of _build_command
InitLaunch ==
    /\ InitSession
    /\ target_arch \in Archs
    /\ target_args \in ArgLists
    /\ target_env \in EnvLists
    /\ library_path \in LibraryPaths
    /\ report_bad_args \in BOOLEAN
    /\ seed \in Seeds
    /\ testcase = NoTestcase

\* ----------------------------------------------------------------- actions

\* _target_mk_tmpdir, lines 41-44: the name is chosen locally, the directory
\* made in the execution environment (the mkdir is waited for)
MkTmpdir ==
    /\ pc = "start"
    /\ tmpdir' = Some(ScratchDir)
    /\ target_fs' = target_fs \cup {ScratchDir}
    /\ pc' = "setup"
    /\ UNCHANGED <<options, inputs, caller, alloc, target_trace_filename, target_magic_filename,
                   local_core_filename, target_cmd, r, process, local_fs, target_cores, trace,
                   error, rmdir>>

\* fire_context, lines 73-78: the file names and the command
Setup ==
    /\ pc = "setup"
    /\ target_trace_filename' = IF record_trace THEN Some(<<TmpPrefix, ".trace">>) ELSE None
    /\ target_magic_filename' = IF record_magic THEN Some(<<TmpPrefix, ".magic">>) ELSE None
    /\ local_core_filename' = IF save_core THEN Some(<<TmpPrefix, ".core">>) ELSE None
    /\ target_cmd' = Some(build_command(target_os, target_trace_filename', library_path,
                                        target_magic_filename', Val(tmpdir),
                                        report_bad_args, seed))
    /\ pc' = "run"
    /\ UNCHANGED <<options, inputs, caller, alloc, tmpdir, r, process, target_fs, local_fs,
                   target_cores, trace, error, rmdir>>

\* lines 80-85: the process is started, the record made and handed to the
\* caller's scope
RunContextEnter ==
    /\ pc = "run"
    /\ process' = [state |-> "running", returncode |-> None]
    /\ r' = [TraceResults EXCEPT !.process = Some("p")]
    /\ pc' = "yielded"
    /\ UNCHANGED <<options, inputs, caller, alloc, names, target_fs, local_fs, target_cores,
                   trace, error, rmdir>>

\* faulty variant: line 86 is missing, timed_out is left unassigned
BodyReturnsUnmarked ==
    /\ pc = "yielded"
    /\ pc' = "run_exit"
    /\ UNCHANGED <<options, inputs, caller, alloc, names, r, process, target_fs, local_fs,
                   target_cores, trace, error, rmdir>>

\* the caller's scope ends normally: line 86
BodyReturns ==
    /\ pc = "yielded"
    /\ r' = [r EXCEPT !.timed_out = Some(FALSE)]
    /\ pc' = "run_exit"
    /\ UNCHANGED <<options, inputs, caller, alloc, names, process, target_fs, local_fs,
                   target_cores, trace, error, rmdir>>

\* faulty variant: the retrieval stages run inside the with statement of
\* line 80, before the process-execution scope is left
BodyTimeoutExpiredInsideScope ==
    /\ pc = "yielded"
    /\ r' = [r EXCEPT !.timed_out = Some(TRUE)]
    /\ pc' = "core"
    /\ UNCHANGED <<options, inputs, caller, alloc, names, process, target_fs, local_fs,
                   target_cores, trace, error, rmdir>>

\* the caller's scope raises subprocess.TimeoutExpired (its bounded wait on
\* the process handle ran out): lines 87-88
BodyTimeoutExpired ==
    /\ pc = "yielded"
    /\ r' = [r EXCEPT !.timed_out = Some(TRUE)]
    /\ pc' = "run_exit"
    /\ UNCHANGED <<options, inputs, caller, alloc, names, process, target_fs, local_fs,
                   target_cores, trace, error, rmdir>>

\* the caller's scope raises anything else: nothing catches it, the
\* process-execution scope is left (the process is stopped, having left any
\* number of core files) and the session unwinds to line 46
BodyRaises ==
    /\ pc = "yielded"
    /\ \E n \in 0..MaxCores :
          target_fs' = target_fs \cup CoreFiles(Val(tmpdir), n)
    /\ process' = [state |-> "stopped", returncode |-> None]
    /\ error' = Some("CallerError")
    /\ pc' = "finally"
    /\ UNCHANGED <<options, inputs, caller, alloc, names, r, local_fs, target_cores, trace,
                   rmdir>>

\* fire, line 64: the next element of the testcase is written to the
\* process's standard input
FireWrite ==
    /\ pc = "yielded"
    /\ Len(stdin.written) < Len(Wrap(testcase))
    /\ stdin' = [stdin EXCEPT !.written = Append(@, Encode(Wrap(testcase)[Len(@) + 1]))]
    /\ UNCHANGED <<options, inputs, result, alloc, names, pc, r, process, target_fs, local_fs,
                   target_cores, trace, error, rmdir>>

\* fire, line 64: the write raises (the process has gone and the pipe is
\* broken); nothing in fire or fire_context catches it, the session unwinds
\* as for any exception of the scope body
FireWriteRaises ==
    /\ pc = "yielded"
    /\ Len(stdin.written) < Len(Wrap(testcase))
    /\ \E n \in 0..MaxCores :
          target_fs' = target_fs \cup CoreFiles(Val(tmpdir), n)
    /\ process' = [state |-> "stopped", returncode |-> None]
    /\ error' = Some("BrokenPipeError")
    /\ pc' = "finally"
    /\ UNCHANGED <<options, inputs, caller, alloc, names, r, local_fs, target_cores, trace,
                   rmdir>>

\* fire, line 66: behind the loop, standard input is closed
FireClose ==
    /\ pc = "yielded"
    /\ Len(stdin.written) = Len(Wrap(testcase))
    /\ stdin' = [stdin EXCEPT !.closes = @ + 1]
    /\ pc' = "closed"
    /\ UNCHANGED <<options, inputs, result, alloc, names, r, process, target_fs, local_fs,
                   target_cores, trace, error, rmdir>>

\* fire's with block ends and fire_context goes on behind its yield: line 86
FireBodyEnds ==
    /\ pc = "closed"
    /\ r' = [r EXCEPT !.timed_out = Some(FALSE)]
    /\ pc' = "run_exit"
    /\ UNCHANGED <<options, inputs, caller, alloc, names, process, target_fs, local_fs,
                   target_cores, trace, error, rmdir>>

\* fire, line 68: return r, once the with statement of line 62 has been left
\* without an exception
FireReturn ==
    /\ pc = "returned"
    /\ result = None
    /\ result' = Some(r)
    /\ UNCHANGED <<options, inputs, stdin, alloc, names, pc, r, process, target_fs, local_fs,
                   target_cores, trace, error, rmdir>>

\* the process-execution scope closes (line 80's with statement is left) and
\* the process has ended within the time budget, with some return code and
\* some number of core files in its coredump directory
ProcessConcludes ==
    /\ pc = "run_exit"
    /\ \E rc \in ReturnCodes : process' = [state |-> "exited", returncode |-> Some(rc)]
    /\ \E n \in 0..MaxCores : target_fs' = target_fs \cup CoreFiles(Val(tmpdir), n)
    /\ pc' = "classify"
    /\ UNCHANGED <<options, inputs, caller, alloc, names, r, local_fs, target_cores, trace,
                   error, rmdir>>

\* the process-execution scope closes and the time budget runs out in its
\* bounded wait: the process is stopped and subprocess.TimeoutExpired leaves
\* the with statement of line 80, outside the try of lines 84-88
WaitTimesOut ==
    /\ pc = "run_exit"
    /\ process' = [state |-> "stopped", returncode |-> None]
    /\ \E n \in 0..MaxCores : target_fs' = target_fs \cup CoreFiles(Val(tmpdir), n)
    /\ error' = Some("TimeoutExpired")
    /\ pc' = "finally"
    /\ UNCHANGED <<options, inputs, caller, alloc, names, r, local_fs, target_cores, trace,
                   rmdir>>

\* lines 90-99
ClassifyExit ==
    /\ pc = "classify"
    /\ r' = Classify(r, Val(process.returncode))
    /\ pc' = "core"
    /\ UNCHANGED <<options, inputs, caller, alloc, names, process, target_fs, local_fs,
                   target_cores, trace, error, rmdir>>

\* lines 101-109
RetrieveCore ==
    /\ pc = "core"
    /\ IF local_core_filename = None
       THEN /\ pc' = "trace"
            /\ UNCHANGED <<r, local_fs, target_cores, error>>
       ELSE LET cores == GlobCores(target_fs, Val(tmpdir))
            IN /\ target_cores' = Some(cores)
               /\ IF CoreCountBad(cores)
                  THEN /\ error' = Some("ArchrError: expected 1 core file")
                       /\ pc' = "finally"
                       /\ UNCHANGED <<r, local_fs>>
                  ELSE /\ local_fs' = FetchCore(local_fs, CHOOSE c \in cores : TRUE,
                                                LocalTmpdir, Val(local_core_filename))
                       /\ r' = [r EXCEPT !.core_path = local_core_filename]
                       /\ pc' = "trace"
                       /\ UNCHANGED error
    /\ UNCHANGED <<options, inputs, caller, alloc, names, process, target_fs, trace, rmdir>>

\* lines 111-128
RetrieveTrace ==
    /\ pc = "trace"
    /\ IF target_trace_filename = None
       THEN /\ pc' = "magic"
            /\ UNCHANGED <<r, trace, error>>
       ELSE \E log \in TraceLogs :
               LET out == TraceStage(r, target_os, log)
               IN /\ trace' = Some(log)
                  /\ r' = out.r
                  /\ error' = out.error
                  /\ pc' = IF out.error = None THEN "magic" ELSE "finally"
    /\ UNCHANGED <<options, inputs, caller, alloc, names, process, target_fs, local_fs,
                   target_cores, rmdir>>

\* lines 130-133, the last of the with block of line 72
RetrieveMagic ==
    /\ pc = "magic"
    /\ IF target_magic_filename = None
       THEN UNCHANGED <<r, error>>
       ELSE \E n \in MagicSizes :
               LET out == MagicStage(r, n)
               IN /\ r' = out.r
                  /\ error' = out.error
    /\ pc' = "finally"
    /\ UNCHANGED <<options, inputs, caller, alloc, names, process, target_fs, local_fs,
                   target_cores, trace, rmdir>>

\* _target_mk_tmpdir, line 46: on every way out of the with block the rmdir
\* command is started (and not waited for); the session ends, handing the
\* record back or raising the error
Finally ==
    /\ pc = "finally"
    /\ rmdir' = "running"
    /\ pc' = IF error = None THEN "returned" ELSE "raised"
    /\ UNCHANGED <<options, inputs, caller, alloc, names, r, process, target_fs, local_fs,
                   target_cores, trace, error>>

\* the rmdir command runs in the execution environment
RmdirRuns ==
    /\ rmdir = "running"
    /\ target_fs' = Rmdir(target_fs, Val(tmpdir))
    /\ rmdir' = "done"
    /\ UNCHANGED <<options, inputs, caller, alloc, names, pc, r, process, local_fs,
                   target_cores, trace, error>>

Next ==
    \/ MkTmpdir
    \/ Setup
    \/ RunContextEnter
    \/ BodyReturns
    \/ BodyTimeoutExpired
    \/ BodyRaises
    \/ ProcessConcludes
    \/ WaitTimesOut
    \/ ClassifyExit
    \/ RetrieveCore
    \/ RetrieveTrace
    \/ RetrieveMagic
    \/ Finally
    \/ RmdirRuns

Spec == Init /\ [][Next]_vars

\* ---------------------------------------------------------------- fire

\* fire called with any options and any testcase, for a built x86_64 target
InitFire ==
    /\ InitSession
    /\ target_arch = "x86_64"
    /\ target_args = << <<"/bin/target">>, <<"arg">> >>
    /\ target_env = << <<"PATH=/bin">> >>
    /\ library_path = None
    /\ report_bad_args = FALSE
    /\ seed = None
    /\ testcase \in Testcases

\* fire: the session with fire's own with block as the caller's scope
NextFire ==
    \/ MkTmpdir
    \/ Setup
    \/ RunContextEnter
    \/ FireWrite
    \/ FireWriteRaises
    \/ FireClose
    \/ FireBodyEnds
    \/ ProcessConcludes
    \/ WaitTimesOut
    \/ ClassifyExit
    \/ RetrieveCore
    \/ RetrieveTrace
    \/ RetrieveMagic
    \/ Finally
    \/ RmdirRuns
    \/ FireReturn

SpecFire == InitFire /\ [][NextFire]_vars

\* ------------------------------------------- two sessions' allocation steps

\* names tempfile.mktemp may hand out: random names that do not exist on the
\* local file system.  Neither the scratch directory nor the output files
\* are ever made locally, so no name is ever excluded.
TmpNames == {<<"tracer_a">>, <<"tracer_b">>}

TmpPrefixes == {"tracer-p", "tracer-q"}

\* fire_context's defaults (line 71) for both sessions
InitAlloc ==
    /\ Init
    /\ record_trace
    /\ ~record_magic
    /\ ~save_core
    /\ target_os = "linux"

session == <<options, inputs, caller, pc, names, r, process, target_fs, local_fs, target_cores,
             trace, error, rmdir>>

\* line 41: tmpdir = tempfile.mktemp(prefix="/tmp/tracer_")
Mktemp(s) ==
    /\ sessions[s].pc = "start"
    /\ \E n \in TmpNames :
          sessions' = [sessions EXCEPT ![s].tmpdir = Some(n), ![s].pc = "mkdir"]
    /\ UNCHANGED <<session, env_dirs>>

\* line 42: run_command(["mkdir", tmpdir]).wait(); mkdir fails on a name
\* that exists, and its exit status is not looked at
Mkdir(s) ==
    /\ sessions[s].pc = "mkdir"
    /\ env_dirs' =
          IF \E d \in env_dirs : d.name = Val(sessions[s].tmpdir)
          THEN env_dirs
          ELSE env_dirs \cup {[name |-> Val(sessions[s].tmpdir), maker |-> s]}
    /\ sessions' = [sessions EXCEPT ![s].pc = "prefix"]
    /\ UNCHANGED session

\* line 73: tmp_prefix = tempfile.mktemp(dir='/tmp', prefix="tracer-"), and
\* from there the session uses its names (lines 74-133)
MktempPrefix(s) ==
    /\ sessions[s].pc = "prefix"
    /\ \E p \in TmpPrefixes :
          sessions' = [sessions EXCEPT ![s].tmp_prefix = Some(p), ![s].pc = "live"]
    /\ UNCHANGED <<session, env_dirs>>

\* line 46: run_command(["rmdir", tmpdir]) removes the directory of that
\* name, whoever made it
Release(s) ==
    /\ sessions[s].pc = "live"
    /\ env_dirs' = {d \in env_dirs : d.name # Val(sessions[s].tmpdir)}
    /\ sessions' = [sessions EXCEPT ![s].pc = "done"]
    /\ UNCHANGED session

NextAlloc ==
    \/ \E s \in Sessions : Mktemp(s)
    \/ \E s \in Sessions : Mkdir(s)
    \/ \E s \in Sessions : MktempPrefix(s)
    \/ \E s \in Sessions : Release(s)

SpecAlloc == InitAlloc /\ [][NextAlloc]_vars

\* the session up to the start of the process, for any target and any
\* keyword arguments
NextLaunch ==
    \/ MkTmpdir
    \/ Setup
    \/ RunContextEnter

SpecLaunch == InitLaunch /\ [][NextLaunch]_vars

\* ------------------------------------------------------------------ claims

\* the session is over: the record was handed back or an error raised
Ended == pc \in {"returned", "raised"}

\* the errors of the retrieval and parsing stages (lines 101-133)
ArtifactErrors ==
    {Some("ArchrError: expected 1 core file"), Some("ArchrError: improper magic size"),
     Some("RuntimeError"), Some("IndexError"), Some("ValueError"), Some("AttributeError")}

\* C1 (as claimed, on the exit path of a session with save_core that hands
\* its record back): once the session has ended and its rmdir command has
\* run, the scratch directory the session made no longer exists in the
\* execution environment.
C1_ScratchDirReleased ==
    (pc = "returned" /\ save_core /\ rmdir = "done") => Val(tmpdir) \notin target_fs

\* C2 (as claimed): in the record a session hands back, trace is populated
\* if and only if trace recording was requested and the process did not
\* time out.
C2_TraceIffRequestedAndInTime ==
    pc = "returned" => ((r.trace # None) <=> (record_trace /\ r.timed_out = Some(FALSE)))

\* C3 (as claimed): in every state of the record, timed_out = true implies
\* that base_address, crash_address and magic_contents are absent.
C3_TimedOutHasNoArtifacts ==
    r.timed_out = Some(TRUE) =>
        r.base_address = None /\ r.crash_address = None /\ r.magic_contents = None

\* C4 (as claimed): a timeout is not an error; in particular the missing or
\* partial artifacts of a timed-out process never abort the session: no
\* retrieval or parsing stage raises once timed_out is true.
C4_TimeoutNeverAborts ==
    r.timed_out = Some(TRUE) => error \notin ArtifactErrors

\* C5 (as claimed): in every session that ends without an error,
\* crash_address is set if and only if crashed is true, and with crashed
\* true and a trace present the trace is non-empty and crash_address is its
\* last element.
C5_CrashAddressIffCrashed ==
    pc = "returned" =>
        /\ (r.crash_address # None) <=> (r.crashed = Some(TRUE))
        /\ (r.crashed = Some(TRUE) /\ r.trace # None) =>
               (Val(r.trace) # <<>> /\ r.crash_address = Some(Last(Val(r.trace))))

\* C5 (amended): in every session that ends without an error, crash_address
\* is set if and only if crashed is true and trace recording was requested,
\* and with crashed true and a trace present the trace is non-empty and
\* crash_address is its last element.
C5_CrashAddressIffCrashedAndTraced ==
    pc = "returned" =>
        /\ (r.crash_address # None) <=> (r.crashed = Some(TRUE) /\ record_trace)
        /\ (r.crashed = Some(TRUE) /\ r.trace # None) =>
               (Val(r.trace) # <<>> /\ r.crash_address = Some(Last(Val(r.trace))))

\* C5 witness: a crashed session handed back with a trace of two different
\* addresses and the second one as crash_address
C5_Witness ==
    /\ pc = "returned"
    /\ r.crashed = Some(TRUE)
    /\ r.trace = Some(<<65, 74>>)
    /\ r.crash_address = Some(74)

\* the return code has been read and classified
Classified == process.state = "exited" /\ pc # "classify"

\* C6: in every session that did not time out, a return code of 139 or -11
\* is classified as a segmentation violation: crashed is true and the
\* signal is SIGSEGV.
C6_SegvClassified ==
    (Classified /\ r.timed_out = Some(FALSE) /\ process.returncode \in {Some(139), Some(-11)}) =>
        (r.crashed = Some(TRUE) /\ r.signal = Some("SIGSEGV") /\ r.returncode = process.returncode)

\* C6 witness: a session in time whose process ended with -11, classified
C6_Witness ==
    /\ Classified
    /\ r.timed_out = Some(FALSE)
    /\ process.returncode = Some(-11)
    /\ r.signal = Some("SIGSEGV")

\* C7 (as claimed): in every session that did not time out, a return code
\* of 132 or -9 is classified as an illegal instruction: crashed is true and
\* the signal is SIGILL.
C7_IllClassified ==
    (Classified /\ r.timed_out = Some(FALSE) /\ process.returncode \in {Some(132), Some(-9)}) =>
        (r.crashed = Some(TRUE) /\ r.signal = Some("SIGILL"))

\* the snapshot has been retrieved
MagicRetrieved == record_magic /\ r.magic_contents # None

\* C8 (as claimed): a retrieved snapshot raises the size error exactly when
\* its length is not 4096, and in every state of the record, the one the
\* caller holds after an aborted session included, magic_contents is absent
\* or 4096 bytes long.
C8_MagicIsAPage ==
    /\ MagicRetrieved =>
          ((error = Some("ArchrError: improper magic size")) <=> (Val(r.magic_contents) # PageSize))
    /\ r.magic_contents # None => Val(r.magic_contents) = PageSize

\* C9: in every session with save_core whose process-execution scope has
\* closed, timed out or not, the core-file glob is resolved; 0 or 2 and more
\* matches raise the cardinality error and leave core_path unset; exactly 1
\* match succeeds: the file is at the requested local path, core_path
\* records that path and the local temporary directory is gone.
C9_CoreRetrieval ==
    /\ (save_core /\ Classified /\ pc # "core") => target_cores # None
    /\ (target_cores # None /\ Cardinality(Val(target_cores)) # 1) =>
          /\ error = Some("ArchrError: expected 1 core file")
          /\ r.core_path = None
          /\ pc \in {"finally", "raised"}
    /\ (target_cores # None /\ Cardinality(Val(target_cores)) = 1) =>
          /\ error # Some("ArchrError: expected 1 core file")
          /\ local_core_filename # None
          /\ r.core_path = local_core_filename
          /\ Val(local_core_filename) \in local_fs
          /\ local_fs = {Val(local_core_filename)}

\* C9 witness: a timed-out session handed back with its single core file
\* moved to the local core path
C9_Witness ==
    /\ pc = "returned"
    /\ r.timed_out = Some(TRUE)
    /\ target_cores # None
    /\ Cardinality(Val(target_cores)) = 1
    /\ r.core_path = Some(<<TmpPrefix, ".core">>)
    /\ <<TmpPrefix, ".core">> \in local_fs

\* C10: a log of one load-base line and N well-formed entry lines in the
\* target's OS-family format parses to the encoded base address and to the
\* N addresses in line order.
C10_ParseRoundTrip ==
    \A b \in BaseAddrs, as \in AddrSeqs :
        trace = Some(EncodeLog(target_os, b, as)) =>
            (r.base_address = Some(b) /\ r.trace = Some(as))

\* C10 witness: the general format, two entries with different addresses
C10_Witness ==
    /\ target_os = "linux"
    /\ trace = Some(EncodeLog("linux", 128, <<74, 65>>))
    /\ r.base_address = Some(128)
    /\ r.trace = Some(<<74, 65>>)

\* the end-to-end run has happened: trace recording requested, a log of one
\* load-base line for b and the ten entry lines retrieved, exit status 0 in
\* time
EndToEnd(b) ==
    /\ record_trace
    /\ r.timed_out = Some(FALSE)
    /\ process.returncode = Some(0)
    /\ trace = Some(EncodeLog(target_os, b, ScenarioTrace))

\* C11 (as claimed): after the end-to-end run the record has crashed = false
\* (set, not absent), timed_out = false, base_address equal to the printed
\* value and a trace of ten entries whose last one is the address of the
\* last printed line.
C11_EndToEndCrashedFalse ==
    \A b \in BaseAddrs :
        EndToEnd(b) =>
            /\ r.crashed = Some(FALSE)
            /\ r.timed_out = Some(FALSE)
            /\ r.base_address = Some(b)
            /\ r.trace # None
            /\ Len(Val(r.trace)) = 10
            /\ Last(Val(r.trace)) = Last(ScenarioTrace)

\* C11 (amended): after the end-to-end run the record has crashed absent
\* (None, never assigned), no signal, returncode 0, timed_out = false,
\* base_address equal to the printed value and a trace of the ten printed
\* addresses in line order, and the parse raised nothing.
C11_EndToEndCrashedAbsent ==
    \A b \in BaseAddrs :
        EndToEnd(b) =>
            /\ r.crashed = None
            /\ r.signal = None
            /\ r.returncode = Some(0)
            /\ r.timed_out = Some(FALSE)
            /\ r.base_address = Some(b)
            /\ r.trace = Some(ScenarioTrace)
            /\ Len(Val(r.trace)) = 10
            /\ Last(Val(r.trace)) = Last(ScenarioTrace)
            /\ r.crash_address = None
            /\ error \notin ArtifactErrors \ {Some("ArchrError: improper magic size")}

\* C11 witness: the end-to-end run of a linux target handed back
C11_Witness ==
    /\ pc = "returned"
    /\ target_os = "linux"
    /\ EndToEnd(128)
    /\ r.base_address = Some(128)
    /\ r.trace = Some(ScenarioTrace)

\* C12 (as claimed): with an architecture the launcher has no variant for,
\* the session fails with a configuration error before any process is
\* started: the emulator process is never started.
C12_ConfigErrorBeforeStart ==
    target_arch \notin KnownArchs => process.state = "none"

\* the session holds a scratch directory: its mkdir has run, its rmdir has not
Holding(s) == sessions[s].pc \in {"prefix", "live"}

RunContextExited == process.state \in {"exited", "stopped"}

\* C14: no resolve_glob, retrieve_into or retrieve_contents call happens
\* before the process-execution scope has been left (a retrieval stage is
\* never current, and none of their results exists, while the process is not
\* started or runs), and the rmdir command is issued only when the retrieval
\* and parsing stages are over, finished or aborted.
C14_RetrievalAfterProcess ==
    /\ pc \in {"core", "trace", "magic"} => RunContextExited
    /\ (target_cores # None \/ trace # None \/ r.core_path # None \/ r.magic_contents # None
           \/ local_fs # {}) => RunContextExited
    /\ rmdir # "none" => (Ended /\ RunContextExited)
    /\ ~RunContextExited => (r.trace = None /\ r.base_address = None /\ r.crash_address = None)

\* C14 witness: a session handed back after all three retrievals, its rmdir
\* command run
C14_Witness ==
    /\ pc = "returned"
    /\ rmdir = "done"
    /\ target_cores # None
    /\ trace # None
    /\ r.magic_contents # None

\* the log has no load-base line, or behind its first load-base line a line
\* that starts with the trace-entry marker and is no entry line of the OS
\* family's format
Malformed(os, log) ==
    LET lines == SplitLines(log)
        K == {k \in 1..Len(lines) : lines[k] # <<>> /\ lines[k][1] = "start_code"}
    IN \/ K = {}
       \/ \E k \in 1..Len(lines) :
             /\ \E i \in K : i < k
             /\ Len(lines[k]) >= 2 /\ lines[k][1] = "Trace" /\ lines[k][2] = " "
             /\ \A a \in TraceAddrs : lines[k] # Entry(os, a)

\* the errors of the parse (lines 116-122)
ParseErrors == {Some("RuntimeError"), Some("AttributeError"), Some("ValueError")}

\* C15: with trace recording requested and no timeout, a retrieved log that
\* has no load-base line, or has behind it a trace-entry line not in the
\* active OS family's format, aborts the session with an error raised to the
\* caller, and the record's trace (and crash_address) is never populated.
C15_MalformedLogAborts ==
    (record_trace /\ r.timed_out = Some(FALSE) /\ trace # None
        /\ Malformed(target_os, Val(trace))) =>
            /\ error \in ParseErrors
            /\ pc \in {"finally", "raised"}
            /\ r.trace = None
            /\ r.crash_address = None

\* C15 witness: a linux target whose log carries an entry line of the cgc
\* format; the session has raised, the base address is set, the trace is not
C15_Witness ==
    /\ pc = "raised"
    /\ target_os = "linux"
    /\ r.timed_out = Some(FALSE)
    /\ trace = Some(EncodeLog("cgc", 64, <<74>>))
    /\ error = Some("AttributeError")
    /\ r.base_address = Some(64)
    /\ r.trace = None

\* timed_out holds a boolean
TimedOutAssigned(res) == res.timed_out \in {Some(TRUE), Some(FALSE)}

\* C16 (as claimed): every session that has ended, normally, by timeout or
\* by an exception from the scope body, has left timed_out a boolean.
C16_TimedOutAlwaysAssigned == Ended => TimedOutAssigned(r)

\* C16 (amended): in every step of every session, timed_out is written only
\* when the caller's scope closes, normally or with TimeoutExpired, and to a
\* boolean; once written it never changes; and a session that has ended has
\* left it a boolean unless the scope body raised another exception, in
\* which case it was never written.
C16_TimedOutWrittenAtMostOnce ==
    [][ /\ r.timed_out # None => r'.timed_out = r.timed_out
        /\ r'.timed_out # r.timed_out =>
              (pc = "yielded" /\ pc' = "run_exit" /\ TimedOutAssigned(r'))
        /\ (pc = "yielded" /\ pc' = "run_exit") => r.timed_out = None
        /\ Ended' => (TimedOutAssigned(r') <=> error' # Some("CallerError"))
        /\ Ended' => (r'.timed_out = None <=> error' = Some("CallerError")) ]_vars

\* C16 witness: a session handed back after its scope timed out
C16_Witness ==
    /\ pc = "returned"
    /\ r.timed_out = Some(TRUE)
    /\ rmdir = "done"

\* C17: returncode is None in every state before the caller's scope and the
\* process-execution scope have closed, and in every state with timed_out
\* true; when it is set, run_context has been left with timed_out false and
\* the value is the process handle's return code.
C17_ReturncodeOnlyInTime ==
    /\ pc \in {"start", "setup", "run", "yielded", "run_exit", "classify"} => r.returncode = None
    /\ r.timed_out = Some(TRUE) => r.returncode = None
    /\ r.returncode # None =>
          /\ process.state = "exited"
          /\ r.returncode = process.returncode
          /\ r.timed_out = Some(FALSE)

\* C17 witness: a timed-out session handed back; the process had ended with
\* a return code by the time run_context was left, the record has none
C17_Witness ==
    /\ pc = "returned"
    /\ r.timed_out = Some(TRUE)
    /\ process.returncode = Some(139)
    /\ r.returncode = None

\* C18: whatever the target and the keyword arguments, the command
\* _build_command returns starts with the launcher path, the variant name,
\* -C and the scratch directory, and ends with the target's arguments,
\* verbatim and in order; no step changes the target's argument list or
\* environment.
C18_CommandShape ==
    [][ /\ target_cmd' # None =>
              LET cmd == Val(target_cmd')
                  n == Len(target_args)
              IN /\ Len(cmd) >= 4 + n
                 /\ cmd[1] = <<"/tmp/shellphish_qemu/fire">>
                 /\ cmd[2] = qemu_variant(target_os, record_trace)
                 /\ cmd[3] = <<"-C">>
                 /\ cmd[4] = Val(tmpdir)
                 /\ SubSeq(cmd, Len(cmd) - n + 1, Len(cmd)) = target_args
        /\ target_args' = target_args
        /\ target_env' = target_env ]_vars

\* C18 witness: a command built with every keyword argument given, for a
\* target of three arguments whose environment already binds eagerly
C18_Witness ==
    /\ target_cmd # None
    /\ target_os = "linux"
    /\ record_trace /\ record_magic
    /\ library_path # None /\ report_bad_args
    /\ target_env = << <<"PATH=/bin">>, <<"LD_BIND_NOW=1">> >>
    /\ \E i \in 5..(Len(Val(target_cmd)) - 1) :
          Val(target_cmd)[i] = <<"-seed">> /\ Val(target_cmd)[i + 1] = <<"3", "0", "7">>
    /\ SubSeq(Val(target_cmd), Len(Val(target_cmd)) - 2, Len(Val(target_cmd)))
          = << <<"/bin/sh">>, <<"-c">>, <<"arg">> >>

\* the return codes the crash detection names (lines 94 and 97)
FaultCodes == {139, -11, 132, -9}

\* C20: in every state of the record, crashed is true exactly when signal is
\* set; crashed is true only if returncode is one of the fault codes and
\* timed_out is false; and crashed is never the value false: it is absent or
\* true.
C20_CrashedIffSignal ==
    /\ (r.crashed = Some(TRUE)) <=> (r.signal # None)
    /\ r.crashed = Some(TRUE) =>
          /\ r.returncode # None
          /\ Val(r.returncode) \in FaultCodes
          /\ r.timed_out = Some(FALSE)
    /\ r.crashed \in {None, Some(TRUE)}

\* C20 witness: a session handed back with crashed true and the signal set,
\* and no trace requested
C20_Witness ==
    /\ pc = "returned"
    /\ ~record_trace
    /\ r.crashed = Some(TRUE)
    /\ r.signal = Some("SIGSEGV")
    /\ r.returncode = Some(139)

\* what the process is to read: one chunk per element of the testcase, a
\* single str or bytes object being one element; a bytes element as it is, a
\* str element as its UTF-8 bytes
Chunk(t) == IF t.type = "bytes" THEN t.data ELSE Utf8All(t.data)

Chunks(tc) ==
    IF tc.type = "collection"
    THEN [i \in 1..Len(tc.items) |-> Chunk(tc.items[i])]
    ELSE <<Chunk(tc)>>

\* C19: in every step of fire, a write appends the next element's bytes, in
\* the order given, to what an open standard input has received while the
\* process runs; standard input is closed once, after the last write and
\* before the caller's scope and the process-execution scope are left; and
\* when fire returns, it returns the record of a session that has ended
\* without error, all elements written, standard input closed once, the
\* scopes closed and the record populated.
C19_FireFeedsStdin ==
    [][ /\ stdin'.written # stdin.written =>
              /\ pc = "yielded" /\ process.state = "running" /\ stdin.closes = 0
              /\ Len(stdin.written) < Len(Chunks(testcase))
              /\ stdin'.written = SubSeq(Chunks(testcase), 1, Len(stdin.written) + 1)
        /\ stdin'.closes # stdin.closes =>
              /\ stdin.closes = 0 /\ stdin'.closes = 1
              /\ stdin.written = Chunks(testcase)
              /\ pc = "yielded" /\ process.state = "running" /\ r.timed_out = None
        /\ r'.timed_out # r.timed_out => (stdin.closes = 1 /\ stdin.written = Chunks(testcase))
        /\ result' # None =>
              /\ result' = Some(r')
              /\ pc' = "returned" /\ error' = None
              /\ stdin' = [written |-> Chunks(testcase), closes |-> 1]
              /\ process'.state = "exited"
              /\ r'.timed_out = Some(FALSE)
              /\ r'.returncode = process'.returncode
              /\ record_trace => (r'.trace # None /\ r'.base_address # None)
              /\ record_magic => r'.magic_contents # None
              /\ save_core => r'.core_path # None ]_vars

\* C19 witness: fire has returned the record after writing a collection of
\* a bytes and a str element in that order and closing standard input
C19_Witness ==
    /\ result = Some(r)
    /\ testcase = Collection(<<Bytes(<<"A">>), Str(<<"B">>)>>)
    /\ stdin = [written |-> << <<"A">>, <<"B">> >>, closes |-> 1]
    /\ r.trace # None

====
